---- MODULE Spec2Model ----
(***************************************************************************)
(* Model of Old/ORFixForComplexMods.py: the block transformer              *)
(* process_block_full, the tokenizer process_ini_preview and the driver    *)
(* main.                                                                   *)
(*                                                                         *)
(* A line of text is a sequence of atoms (strings).  Whitespace atoms are  *)
(* single characters, so the indentation the code computes with len() is   *)
(* the number of leading whitespace atoms.  Every other atom is a word the *)
(* code's regular expressions and substring tests look for, or a word they *)
(* do not look for; the lines of the catalogues never spell a looked-for   *)
(* word across two atoms.                                                  *)
(*                                                                         *)
(* Spec is the program (main, which runs process_ini_preview line by line  *)
(* for every file); SpecPreview is process_ini_preview alone on a file     *)
(* drawn from a catalogue of lines; SpecBlock is process_block_full alone  *)
(* on a block drawn from a catalogue of lines, applied twice.              *)
(***************************************************************************)
EXTENDS Integers, Sequences, FiniteSets, TLC

VARIABLES
    rename_extra_ps,    \* the global toggle: "None", "True" or "False"
    blk_in,             \* harness: the block argument of process_block_full
    blk_excl,           \* harness: the is_excluded argument
    blk_out,            \* harness: the results of the successive calls
    \* process_ini_preview: its parameter, its locals and its position
    exclude_sections,   \* the exclude_sections argument (main's set of that name)
    lines,              \* f.readlines()
    pos,                \* number of lines the for loop has consumed
    new_lines,
    block_lines,
    current_section,
    inside_section,
    inside_excluded,
    current_swapvar,
    all_changes,
    ppc,                \* "idle", "loop" (in the for loop) or "ret" (returned)
    \* main: its locals, the files and its position
    mpc,
    recursive,
    fs,                 \* the directory tree: path -> lines of the file
    io_log,             \* the copyfile and open(..., 'w') calls made so far
    ini_files,
    sections_found,
    todo_sections,      \* sections the exclusion loop has not reached yet
    main_all_changes,   \* main's all_changes: list of (fpath, changes), in insertion order
    file_idx,           \* index of the running for loop over files
    proceed

(***************************************************************************)
(* Characters and words                                                    *)
(***************************************************************************)
Whitespace == {" ", "\t", "\n"}
Digits == {"0", "1", "2", "3", "4", "5", "6", "7", "8", "9"}
NamespacePath == "CommandList\\global\\ORFix\\"

\* str.lower() / re.IGNORECASE on the words that carry upper-case letters.
LowerTable ==
    [w \in {"RUN", "ORFix", "NNFix", "ORFIX", NamespacePath, "IB", "ib", "Position",
            "Texcoord", "Blend", "Info", "VertexLimitRaise", "[CommandList",
            "[TextureOverride", "If", "EndIf", "ENDIF", ".INI", "[Resource"} |->
        CASE w = "RUN" -> "run"
          [] w = "ORFix" -> "orfix"
          [] w = "ORFIX" -> "orfix"
          [] w = "NNFix" -> "nnfix"
          [] w = NamespacePath -> "commandlist\\global\\orfix\\"
          [] w = "IB" -> "ib"
          [] w = "Position" -> "position"
          [] w = "Texcoord" -> "texcoord"
          [] w = "Blend" -> "blend"
          [] w = "Info" -> "info"
          [] w = "VertexLimitRaise" -> "vertexlimitraise"
          [] w = "[CommandList" -> "[commandlist"
          [] w = "[TextureOverride" -> "[textureoverride"
          [] w = "If" -> "if"
          [] w = "EndIf" -> "endif"
          [] w = "ENDIF" -> "endif"
          [] w = ".INI" -> ".ini"
          [] w = "[Resource" -> "[resource"
          [] OTHER -> w]
Lower(w) == IF w \in DOMAIN LowerTable THEN LowerTable[w] ELSE w

None == <<"None">>      \* the text Python formats None as; no header strips to it

(***************************************************************************)
(* String helpers                                                          *)
(***************************************************************************)
RECURSIVE lstrip(_)
lstrip(line) ==
    IF line # <<>> /\ Head(line) \in Whitespace THEN lstrip(Tail(line)) ELSE line

RECURSIVE rstrip(_)
rstrip(line) ==
    IF line # <<>> /\ line[Len(line)] \in Whitespace
    THEN rstrip(SubSeq(line, 1, Len(line) - 1))
    ELSE line

strip(line) == rstrip(lstrip(line))

\* len(line) - len(line.lstrip())
Indent(line) == Len(line) - Len(lstrip(line))

\* "word" in line
Contains(line, word) == \E i \in DOMAIN line : line[i] = word

\* position of the first non-whitespace atom at or after i (Len+1 if none): \s*
RECURSIVE SkipWS(_, _)
SkipWS(line, i) ==
    IF i <= Len(line) /\ line[i] \in Whitespace THEN SkipWS(line, i + 1) ELSE i

At(line, i) == IF i \in DOMAIN line THEN line[i] ELSE ""

\* line.replace("ps-t0", "ps-t1", 1): only the first occurrence
HasPsT0(line, i) == At(line, i) = "ps-t" /\ At(line, i + 1) = "0"
ReplaceFirstPsT0(line) ==
    IF \E i \in DOMAIN line : HasPsT0(line, i)
    THEN LET i == CHOOSE i \in DOMAIN line :
                      HasPsT0(line, i) /\ \A j \in 1..(i - 1) : ~HasPsT0(line, j)
         IN [line EXCEPT ![i + 1] = "1"]
    ELSE line

(***************************************************************************)
(* Patterns                                                                *)
(***************************************************************************)
\* re.match(r'ps-t\d+', stripped)
MatchPsT(stripped) == At(stripped, 1) = "ps-t" /\ At(stripped, 2) \in Digits

\* re.match(r'ps-t0\s*=', stripped)
MatchPsT0Assign(stripped) ==
    /\ At(stripped, 1) = "ps-t"
    /\ At(stripped, 2) = "0"
    /\ At(stripped, SkipWS(stripped, 3)) = "="

\* RUN_LINE_PATTERN.match(line)
RUN_LINE_PATTERN(line) ==
    LET r == SkipWS(line, 1)
        e == SkipWS(line, r + 1)
        c == SkipWS(line, e + 1)
    IN /\ Lower(At(line, r)) = "run"
       /\ At(line, e) = "="
       /\ Lower(At(line, c)) = Lower(NamespacePath)
       /\ Lower(At(line, c + 1)) \in {"nnfix", "orfix"}

RunORFix == <<"run", " ", "=", " ", NamespacePath, "ORFix", "\n">>
RunNNFix == <<"run", " ", "=", " ", NamespacePath, "NNFix", "\n">>

(***************************************************************************)
(* process_block_full                                                      *)
(***************************************************************************)
Truthy(toggle) == toggle = "True"

\* ShouldRename without the test for "Extra"
ShouldRenameNoExtra(line, rename) ==
    LET stripped == lstrip(line)
    IN /\ Truthy(rename)
       /\ MatchPsT0Assign(stripped)
       /\ Contains(stripped, "Diffuse")

\* the condition of the rename branch
ShouldRename(line, rename) ==
    LET stripped == lstrip(line)
    IN /\ Truthy(rename)
       /\ MatchPsT0Assign(stripped)
       /\ Contains(stripped, "Extra")
       /\ Contains(stripped, "Diffuse")

RenamedRecord(section_name, line) ==
    [section |-> section_name, kind |-> "RENAMED",
     text |-> lstrip(line), to |-> ReplaceFirstPsT0(lstrip(line))]
RemovedRecord(section_name, line) ==
    [section |-> section_name, kind |-> "REMOVED", text |-> strip(line), to |-> <<>>]
AddedRecord(section_name, correct_run) ==
    [section |-> section_name, kind |-> "ADDED", text |-> strip(correct_run), to |-> <<>>]

\* first loop: the block with the rename applied
RenameBlock(block, rename) ==
    [i \in 1..Len(block) |->
        IF ShouldRename(block[i], rename) THEN ReplaceFirstPsT0(block[i]) ELSE block[i]]

\* first loop: its change records, in line order
RECURSIVE RenameChanges(_, _, _)
RenameChanges(block, section_name, rename) ==
    IF block = <<>> THEN <<>>
    ELSE (IF ShouldRename(Head(block), rename)
          THEN <<RenamedRecord(section_name, Head(block))>> ELSE <<>>)
         \o RenameChanges(Tail(block), section_name, rename)

SetMax(S) == CHOOSE m \in S : \A x \in S : x <= m
SetMin(S) == CHOOSE m \in S : \A x \in S : m <= x

\* first loop: last_ps_indices, indentation -> 0-based index of the last ps-t line
LastPsIndices(block) ==
    LET slots == {i \in 1..Len(block) : MatchPsT(lstrip(block[i]))}
    IN [d \in {Indent(block[i]) : i \in slots} |->
           SetMax({i - 1 : i \in {j \in slots : Indent(block[j]) = d}})]

\* KeepRun without the comparison with correct_run
KeepRunAnyTarget(line, i, last_ps_indices, correct_run) ==
    LET indent == Indent(line)
    IN /\ indent \in DOMAIN last_ps_indices
       /\ i = last_ps_indices[indent] + 1

\* the test that keeps a run line (i is the 0-based index)
KeepRun(line, i, last_ps_indices, correct_run) ==
    LET indent == Indent(line)
    IN /\ indent \in DOMAIN last_ps_indices
       /\ i = last_ps_indices[indent] + 1
       /\ line = correct_run

\* second loop, from 0-based index i on: temp_block
RECURSIVE RemoveRuns(_, _, _, _)
RemoveRuns(new_block, i, last_ps_indices, correct_run) ==
    IF i >= Len(new_block) THEN <<>>
    ELSE LET line == new_block[i + 1]
         IN (IF RUN_LINE_PATTERN(line) /\ ~KeepRun(line, i, last_ps_indices, correct_run)
             THEN <<>> ELSE <<line>>)
            \o RemoveRuns(new_block, i + 1, last_ps_indices, correct_run)

\* second loop: its change records
RECURSIVE RemoveChanges(_, _, _, _, _)
RemoveChanges(new_block, i, last_ps_indices, correct_run, section_name) ==
    IF i >= Len(new_block) THEN <<>>
    ELSE LET line == new_block[i + 1]
         IN (IF RUN_LINE_PATTERN(line) /\ ~KeepRun(line, i, last_ps_indices, correct_run)
             THEN <<RemovedRecord(section_name, line)>> ELSE <<>>)
            \o RemoveChanges(new_block, i + 1, last_ps_indices, correct_run, section_name)

\* sorted(last_ps_indices.items()): a list built once, before the third loop runs
RECURSIVE SortedItems(_)
SortedItems(last_ps_indices) ==
    IF DOMAIN last_ps_indices = {} THEN <<>>
    ELSE LET d == SetMin(DOMAIN last_ps_indices)
         IN <<[indent |-> d, last_index |-> last_ps_indices[d]]>>
            \o SortedItems([k \in DOMAIN last_ps_indices \ {d} |-> last_ps_indices[k]])

\* ListInsert one position early
ListInsertBefore(list, index, x) ==
    IF index - 1 >= Len(list) THEN Append(list, x)
    ELSE SubSeq(list, 1, index - 1) \o <<x>> \o SubSeq(list, index, Len(list))

\* list.insert(index, x): an index past the end appends
ListInsert(list, index, x) ==
    IF index >= Len(list) THEN Append(list, x)
    ELSE SubSeq(list, 1, index) \o <<x>> \o SubSeq(list, index + 1, Len(list))

\* the inner loop that adjusts the table after an insertion
ShiftIndices(last_ps_indices, insert_index) ==
    [k \in DOMAIN last_ps_indices |->
        IF last_ps_indices[k] >= insert_index
        THEN last_ps_indices[k] + 1 ELSE last_ps_indices[k]]

\* third loop over the items list; the table it adjusts is not the list it walks
RECURSIVE InsertRuns(_, _, _, _, _)
InsertRuns(items, new_block, last_ps_indices, correct_run, section_name) ==
    IF items = <<>> THEN [block |-> new_block, changes |-> <<>>]
    ELSE LET insert_index == Head(items).last_index + 1
             present == /\ Len(new_block) > insert_index
                        /\ new_block[insert_index + 1] = correct_run
         IN IF present
            THEN InsertRuns(Tail(items), new_block, last_ps_indices,
                            correct_run, section_name)
            ELSE LET rest == InsertRuns(Tail(items),
                                        ListInsert(new_block, insert_index, correct_run),
                                        ShiftIndices(last_ps_indices, insert_index),
                                        correct_run, section_name)
                 IN [block |-> rest.block,
                     changes |-> <<AddedRecord(section_name, correct_run)>>
                                 \o rest.changes]

HasNormal(block) == \E i \in DOMAIN block : Contains(block[i], "NormalMap")
CorrectRun(block) == IF HasNormal(block) THEN RunORFix ELSE RunNNFix

\* ShortCircuit that ignores is_excluded
ShortCircuitEmptyOnly(block, is_excluded) == block = <<>>

\* if not block or is_excluded
ShortCircuit(block, is_excluded) == block = <<>> \/ is_excluded

process_block_full(block, section_name, is_excluded, rename) ==
    IF ShortCircuit(block, is_excluded) THEN [block |-> block, changes |-> <<>>]
    ELSE LET correct_run == CorrectRun(block)
             new_block == RenameBlock(block, rename)
             last_ps_indices == LastPsIndices(block)
             temp_block == RemoveRuns(new_block, 0, last_ps_indices, correct_run)
             ins == InsertRuns(SortedItems(last_ps_indices), temp_block,
                               last_ps_indices, correct_run, section_name)
         IN [block |-> ins.block,
             changes |-> RenameChanges(block, section_name, rename)
                         \o RemoveChanges(new_block, 0, last_ps_indices, correct_run,
                                          section_name)
                         \o ins.changes]

(***************************************************************************)
(* process_ini_preview                                                     *)
(***************************************************************************)
\* stripped.startswith("[CommandList") or stripped.startswith("[TextureOverride")
IsSectionHeader(stripped) == At(stripped, 1) \in {"[CommandList", "[TextureOverride"}

\* AUTO_EXCLUDE_PATTERNS: ^\[(CommandList|TextureOverride).*<suffix>\]$, IGNORECASE;
\* one entry per pattern, the suffix in lower case
AUTO_EXCLUDE_PATTERNS ==
    <<"ib", "position", "texcoord", "blend", "info", "vertexlimitraise">>

\* pat.match(section) for the pattern with this suffix
PatMatch(suffix, section) ==
    /\ Lower(At(section, 1)) \in {"[commandlist", "[textureoverride"}
    /\ Len(section) >= 3
    /\ Lower(section[Len(section) - 1]) = suffix
    /\ section[Len(section)] = "]"

\* any(pat.match(section) for pat in AUTO_EXCLUDE_PATTERNS)
AutoExcluded(section) ==
    \E k \in DOMAIN AUTO_EXCLUDE_PATTERNS : PatMatch(AUTO_EXCLUDE_PATTERNS[k], section)

\* the digits \d+ matches from position d on
RECURSIVE DigitRun(_, _)
DigitRun(line, d) ==
    IF At(line, d) \in Digits THEN <<line[d]>> \o DigitRun(line, d + 1) ELSE <<>>

\* SWAPVAR_PATTERN.match(line): ^\s*(if|else if)\s+\$swapvar\s*==\s*(\d+), IGNORECASE
SWAPVAR_PATTERN(line) ==
    LET k == SkipWS(line, 1)
        v == SkipWS(line, k + 1)
        e == SkipWS(line, v + 1)
        d == SkipWS(line, e + 1)
    IN /\ Lower(At(line, k)) \in {"if", "else if"}
       /\ At(line, k + 1) \in Whitespace
       /\ Lower(At(line, v)) = "$swapvar"
       /\ At(line, e) = "=="
       /\ At(line, d) \in Digits

\* swapvar_match.group(2)
SwapvarGroup2(line) ==
    DigitRun(line, SkipWS(line, SkipWS(line, SkipWS(line, SkipWS(line, 1) + 1) + 1) + 1))

\* re.match(r'\s*endif', line, re.IGNORECASE)
EndifMatch(line) == Lower(At(line, SkipWS(line, 1))) = "endif"

\* RESOURCE_END_PATTERN.match(line): ^\s*\[Resource.*Position.*\], IGNORECASE.
\* The pattern is compiled at module level; no function of the program uses it.
RESOURCE_END_PATTERN(line) ==
    LET k == SkipWS(line, 1)
    IN /\ Lower(At(line, k)) = "[resource"
       /\ \E i, j \in DOMAIN line :
             k < i /\ i < j /\ Lower(line[i]) = "position" /\ line[j] = "]"

\* the line the for loop is at
CurLine == lines[pos + 1]
InLoop == ppc = "loop" /\ pos < Len(lines)

\* process_block_full(block_lines, current_section, is_excluded=inside_excluded)
Processed ==
    process_block_full(block_lines, current_section, inside_excluded, rename_extra_ps)

previewLocals ==
    <<lines, pos, new_lines, block_lines, current_section, inside_section,
      inside_excluded, current_swapvar, all_changes, ppc>>
mainLocals ==
    <<mpc, recursive, fs, io_log, ini_files, sections_found, todo_sections,
      main_all_changes, file_idx, proceed>>
blockHarness == <<blk_in, blk_excl, blk_out>>

\* a [CommandList... or [TextureOverride... header
ReadHeader ==
    /\ InLoop
    /\ IsSectionHeader(strip(CurLine))
    /\ new_lines' = (IF block_lines # <<>> THEN new_lines \o Processed.block
                     ELSE new_lines) \o <<CurLine>>
    /\ all_changes' = (IF block_lines # <<>> THEN all_changes \o Processed.changes
                       ELSE all_changes)
    /\ block_lines' = <<>>
    /\ current_section' = strip(CurLine)
    /\ inside_section' = TRUE
    /\ inside_excluded' = (AutoExcluded(strip(CurLine))
                           \/ strip(CurLine) \in exclude_sections)
    /\ current_swapvar' = None
    /\ pos' = pos + 1
    /\ UNCHANGED <<lines, ppc, rename_extra_ps, exclude_sections, mainLocals, blockHarness>>

\* an if / else if $swapvar == n line
ReadSwapvar ==
    /\ InLoop
    /\ ~IsSectionHeader(strip(CurLine))
    /\ SWAPVAR_PATTERN(CurLine)
    /\ new_lines' = (IF block_lines # <<>> THEN new_lines \o Processed.block
                     ELSE new_lines)
    /\ all_changes' = (IF block_lines # <<>> THEN all_changes \o Processed.changes
                       ELSE all_changes)
    /\ current_swapvar' = SwapvarGroup2(CurLine)
    /\ block_lines' = <<CurLine>>
    /\ pos' = pos + 1
    /\ UNCHANGED <<lines, current_section, inside_section, inside_excluded, ppc,
                   rename_extra_ps, exclude_sections, mainLocals, blockHarness>>

\* ReadEndif without the test of inside_section at line 129: an endif closes
\* and flushes the pending block wherever it is read
ReadEndifAnywhere ==
    /\ InLoop
    /\ ~IsSectionHeader(strip(CurLine))
    /\ ~SWAPVAR_PATTERN(CurLine)
    /\ EndifMatch(CurLine)
    /\ LET r == process_block_full(Append(block_lines, CurLine), current_section,
                                   inside_excluded, rename_extra_ps)
       IN /\ new_lines' = new_lines \o r.block
          /\ all_changes' = all_changes \o r.changes
    /\ block_lines' = <<>>
    /\ current_swapvar' = None
    /\ pos' = pos + 1
    /\ UNCHANGED <<lines, current_section, inside_section, inside_excluded, ppc,
                   rename_extra_ps, exclude_sections, mainLocals, blockHarness>>

\* an endif line inside a section
ReadEndif ==
    /\ InLoop
    /\ ~IsSectionHeader(strip(CurLine))
    /\ ~SWAPVAR_PATTERN(CurLine)
    /\ inside_section
    /\ EndifMatch(CurLine)
    /\ LET r == process_block_full(Append(block_lines, CurLine), current_section,
                                   inside_excluded, rename_extra_ps)
       IN /\ new_lines' = new_lines \o r.block
          /\ all_changes' = all_changes \o r.changes
    /\ block_lines' = <<>>
    /\ current_swapvar' = None
    /\ pos' = pos + 1
    /\ UNCHANGED <<lines, current_section, inside_section, inside_excluded, ppc,
                   rename_extra_ps, exclude_sections, mainLocals, blockHarness>>

\* any other line inside a section
ReadBody ==
    /\ InLoop
    /\ ~IsSectionHeader(strip(CurLine))
    /\ ~SWAPVAR_PATTERN(CurLine)
    /\ inside_section
    /\ ~EndifMatch(CurLine)
    /\ block_lines' = Append(block_lines, CurLine)
    /\ pos' = pos + 1
    /\ UNCHANGED <<lines, new_lines, current_section, inside_section, inside_excluded,
                   current_swapvar, all_changes, ppc,
                   rename_extra_ps, exclude_sections, mainLocals, blockHarness>>

\* any other line before the first section
ReadOutside ==
    /\ InLoop
    /\ ~IsSectionHeader(strip(CurLine))
    /\ ~SWAPVAR_PATTERN(CurLine)
    /\ ~inside_section
    /\ new_lines' = Append(new_lines, CurLine)
    /\ pos' = pos + 1
    /\ UNCHANGED <<lines, block_lines, current_section, inside_section, inside_excluded,
                   current_swapvar, all_changes, ppc,
                   rename_extra_ps, exclude_sections, mainLocals, blockHarness>>

\* EndOfInput without the flush of the pending block
EndOfInputNoFlush ==
    /\ ppc = "loop"
    /\ pos = Len(lines)
    /\ ppc' = "ret"
    /\ UNCHANGED <<lines, pos, new_lines, block_lines, current_section, inside_section,
                   inside_excluded, current_swapvar, all_changes,
                   rename_extra_ps, exclude_sections, mainLocals, blockHarness>>

\* after the loop: the pending block is flushed and the function returns
EndOfInput ==
    /\ ppc = "loop"
    /\ pos = Len(lines)
    /\ new_lines' = (IF block_lines # <<>> THEN new_lines \o Processed.block
                     ELSE new_lines)
    /\ all_changes' = (IF block_lines # <<>> THEN all_changes \o Processed.changes
                       ELSE all_changes)
    /\ ppc' = "ret"
    /\ UNCHANGED <<lines, pos, block_lines, current_section, inside_section,
                   inside_excluded, current_swapvar,
                   rename_extra_ps, exclude_sections, mainLocals, blockHarness>>

\* the state process_ini_preview starts in, for the given file content
PreviewEntry(content) ==
    /\ lines' = content
    /\ pos' = 0
    /\ new_lines' = <<>>
    /\ block_lines' = <<>>
    /\ current_section' = None
    /\ inside_section' = FALSE
    /\ inside_excluded' = FALSE
    /\ current_swapvar' = None
    /\ all_changes' = <<>>
    /\ ppc' = "loop"

PreviewIdle ==
    /\ lines = <<>>
    /\ pos = 0
    /\ new_lines = <<>>
    /\ block_lines = <<>>
    /\ current_section = None
    /\ inside_section = FALSE
    /\ inside_excluded = FALSE
    /\ current_swapvar = None
    /\ all_changes = <<>>
    /\ ppc = "idle"

(***************************************************************************)
(* main                                                                    *)
(***************************************************************************)
\* The directory tree main walks: two .ini files, one of them in a
\* subfolder, and a file of another kind.  A path is its folder and its file
\* name, the name split before the extension.
PathA == [root |-> ".", file |-> <<"a", ".ini">>]
PathNotes == [root |-> ".", file |-> <<"notes", ".txt">>]
PathSubB == [root |-> "./sub", file |-> <<"b", ".INI">>]
\* the order os.walk('.', topdown=True) lists the files in
WalkOrder == <<PathA, PathNotes, PathSubB>>
Paths == {WalkOrder[k] : k \in DOMAIN WalkOrder}

\* file.lower().endswith('.ini')
IsIniFile(file) == Lower(At(file, Len(file))) = ".ini"

\* the walk: the top folder only, unless recursive
Walked(rec) ==
    SelectSeq(WalkOrder, LAMBDA p : (rec \/ p.root = ".") /\ IsIniFile(p.file))

\* the section headers the walk collects from the files it lists
SectionsIn(files, tree) ==
    UNION {{strip(tree[files[k]][n]) :
               n \in {m \in DOMAIN tree[files[k]] :
                          IsSectionHeader(strip(tree[files[k]][m]))}} :
           k \in DOMAIN files}

\* "Rename ps-t0 lines ...? (y/n)": the loop ends on y or n; any other
\* answer asks again and changes nothing
AnswerRename ==
    /\ mpc = "ask_rename"
    /\ \E choice \in {"y", "n"} :
          rename_extra_ps' = (IF choice = "y" THEN "True" ELSE "False")
    /\ mpc' = "ask_recursive"
    /\ UNCHANGED <<exclude_sections, previewLocals, recursive, fs, io_log, ini_files,
                   sections_found, todo_sections, main_all_changes, file_idx, proceed,
                   blockHarness>>

\* "Scan subfolders too? (y/n)", then the os.walk loop
AnswerRecursive ==
    /\ mpc = "ask_recursive"
    /\ \E answer \in {"y", "n", ""} :
          /\ recursive' = (answer = "y")
          /\ ini_files' = Walked(answer = "y")
          /\ sections_found' = SectionsIn(Walked(answer = "y"), fs)
          /\ todo_sections' = SectionsIn(Walked(answer = "y"), fs)
    /\ exclude_sections' = {}
    /\ mpc' = "exclude"
    /\ UNCHANGED <<rename_extra_ps, previewLocals, fs, io_log, main_all_changes,
                   file_idx, proceed, blockHarness>>

\* exclusion loop, a section an auto-exclusion pattern matches.  The loop
\* takes the sections in sorted order; the set it builds does not depend on
\* the order, so any section not yet handled may come next.
AutoExclude ==
    /\ mpc = "exclude"
    /\ \E section \in todo_sections :
          /\ AutoExcluded(section)
          /\ exclude_sections' = exclude_sections \cup {section}
          /\ todo_sections' = todo_sections \ {section}
    /\ UNCHANGED <<rename_extra_ps, previewLocals, mpc, recursive, fs, io_log, ini_files,
                   sections_found, main_all_changes, file_idx, proceed, blockHarness>>

\* exclusion loop, "Exclude <section>? (y/n)"
AnswerExclude ==
    /\ mpc = "exclude"
    /\ \E section \in todo_sections, choice \in {"y", "n"} :
          /\ ~AutoExcluded(section)
          /\ exclude_sections' = (IF choice = "y" THEN exclude_sections \cup {section}
                                  ELSE exclude_sections)
          /\ todo_sections' = todo_sections \ {section}
    /\ UNCHANGED <<rename_extra_ps, previewLocals, mpc, recursive, fs, io_log, ini_files,
                   sections_found, main_all_changes, file_idx, proceed, blockHarness>>

\* the exclusion loop is exhausted
ExclusionDone ==
    /\ mpc = "exclude"
    /\ todo_sections = {}
    /\ mpc' = "preview"
    /\ file_idx' = 0
    /\ main_all_changes' = <<>>
    /\ UNCHANGED <<rename_extra_ps, exclude_sections, previewLocals, recursive, fs,
                   io_log, ini_files, sections_found, todo_sections, proceed,
                   blockHarness>>

\* preview loop: the call process_ini_preview(fpath, exclude_sections)
StartPreview ==
    /\ mpc = "preview"
    /\ file_idx < Len(ini_files)
    /\ PreviewEntry(fs[ini_files[file_idx + 1]])
    /\ mpc' = "in_preview"
    /\ UNCHANGED <<rename_extra_ps, exclude_sections, recursive, fs, io_log, ini_files,
                   sections_found, todo_sections, main_all_changes, file_idx, proceed,
                   blockHarness>>

\* the frame of a returned call is gone
PreviewExit ==
    /\ lines' = <<>>
    /\ pos' = 0
    /\ new_lines' = <<>>
    /\ block_lines' = <<>>
    /\ current_section' = None
    /\ inside_section' = FALSE
    /\ inside_excluded' = FALSE
    /\ current_swapvar' = None
    /\ all_changes' = <<>>
    /\ ppc' = "idle"

\* preview loop: the call returned; if changes: all_changes[fpath] = changes
ReturnPreview ==
    /\ mpc = "in_preview"
    /\ ppc = "ret"
    /\ main_all_changes' =
          (IF all_changes # <<>>
           THEN Append(main_all_changes,
                       [fpath |-> ini_files[file_idx + 1], changes |-> all_changes])
           ELSE main_all_changes)
    /\ file_idx' = file_idx + 1
    /\ mpc' = "preview"
    /\ PreviewExit
    /\ UNCHANGED <<rename_extra_ps, exclude_sections, recursive, fs, io_log, ini_files,
                   sections_found, todo_sections, proceed, blockHarness>>

\* after the preview loop: "No changes detected." or the report and the prompt
PreviewDone ==
    /\ mpc = "preview"
    /\ file_idx = Len(ini_files)
    /\ mpc' = (IF main_all_changes = <<>> THEN "done" ELSE "confirm")
    /\ UNCHANGED <<rename_extra_ps, exclude_sections, previewLocals, recursive, fs,
                   io_log, ini_files, sections_found, todo_sections, main_all_changes,
                   file_idx, proceed, blockHarness>>

\* "Proceed with these changes? (y/n)"
AnswerProceed ==
    /\ mpc = "confirm"
    /\ \E answer \in {"y", "n", ""} :
          /\ proceed' = answer
          /\ mpc' = (IF answer = "y" THEN "apply" ELSE "done")
    /\ file_idx' = 0
    /\ UNCHANGED <<rename_extra_ps, exclude_sections, previewLocals, recursive, fs,
                   io_log, ini_files, sections_found, todo_sections, main_all_changes,
                   blockHarness>>

\* apply loop: _, new_lines = process_ini_preview(fpath, exclude_sections)
StartApply ==
    /\ mpc = "apply"
    /\ file_idx < Len(main_all_changes)
    /\ PreviewEntry(fs[main_all_changes[file_idx + 1].fpath])
    /\ mpc' = "in_apply"
    /\ UNCHANGED <<rename_extra_ps, exclude_sections, recursive, fs, io_log, ini_files,
                   sections_found, todo_sections, main_all_changes, file_idx, proceed,
                   blockHarness>>

\* BackupFile without the copy
BackupFileSkipped ==
    /\ mpc = "in_apply"
    /\ ppc = "ret"
    /\ ppc' = "idle"
    /\ mpc' = "write"
    /\ UNCHANGED <<rename_extra_ps, exclude_sections, lines, pos, new_lines, block_lines,
                   current_section, inside_section, inside_excluded, current_swapvar,
                   all_changes, recursive, fs, io_log, ini_files, sections_found,
                   todo_sections, main_all_changes, file_idx, proceed, blockHarness>>

\* apply loop: the call returned and shutil.copyfile(fpath, backup_path) ran;
\* new_lines stays, as main's local of that name
BackupFile ==
    /\ mpc = "in_apply"
    /\ ppc = "ret"
    /\ io_log' = Append(io_log, [op |-> "copyfile",
                                 fpath |-> main_all_changes[file_idx + 1].fpath,
                                 content |-> fs[main_all_changes[file_idx + 1].fpath]])
    /\ ppc' = "idle"
    /\ mpc' = "write"
    /\ UNCHANGED <<rename_extra_ps, exclude_sections, lines, pos, new_lines, block_lines,
                   current_section, inside_section, inside_excluded, current_swapvar,
                   all_changes, recursive, fs, ini_files, sections_found, todo_sections,
                   main_all_changes, file_idx, proceed, blockHarness>>

\* apply loop: open(fpath, 'w') and out.writelines(new_lines)
WriteFile ==
    /\ mpc = "write"
    /\ fs' = [fs EXCEPT ![main_all_changes[file_idx + 1].fpath] = new_lines]
    /\ io_log' = Append(io_log, [op |-> "write",
                                 fpath |-> main_all_changes[file_idx + 1].fpath,
                                 content |-> new_lines])
    /\ file_idx' = file_idx + 1
    /\ mpc' = "apply"
    /\ PreviewExit
    /\ UNCHANGED <<rename_extra_ps, exclude_sections, recursive, ini_files,
                   sections_found, todo_sections, main_all_changes, proceed, blockHarness>>

\* the apply loop is exhausted: "All changes applied successfully."
ApplyDone ==
    /\ mpc = "apply"
    /\ file_idx = Len(main_all_changes)
    /\ mpc' = "done"
    /\ UNCHANGED <<rename_extra_ps, exclude_sections, previewLocals, recursive, fs,
                   io_log, ini_files, sections_found, todo_sections, main_all_changes,
                   file_idx, proceed, blockHarness>>

(***************************************************************************)
(* Harness for process_block_full alone: a block drawn from a catalogue of *)
(* lines, transformed once and then once more.                             *)
(***************************************************************************)
MaxBlockLen == 4

Ps0ExtraDiffuse == <<"ps-t", "0", " ", "=", " ", "Resource", "Extra", "Diffuse", "\n">>
Ps0Diffuse == <<"ps-t", "0", " ", "=", " ", "Resource", "Diffuse", "\n">>
Ps1NormalMap == <<"ps-t", "1", " ", "=", " ", "Resource", "NormalMap", "\n">>
\* indented, and with a second mention of ps-t0 after the value
IndentedPs0 ==
    <<" ", "ps-t", "0", " ", "=", " ", "Resource", "Extra", "Diffuse", " ", "ps-t", "0", "\n">>
IndentedRun == <<" ">> \o RunNNFix
EndifLine == <<"endif", "\n">>

BlockLines ==
    {Ps0ExtraDiffuse, Ps0Diffuse, Ps1NormalMap, IndentedPs0,
     RunORFix, RunNNFix, IndentedRun, EndifLine}

SeqsUpTo(S, n) == UNION {[1..k -> S] : k \in 0..n}

HarnessSection == <<"[TextureOverride", "Body", "]">>

MainIdle ==
    /\ mpc = "harness"
    /\ recursive = FALSE
    /\ fs = <<>>
    /\ io_log = <<>>
    /\ ini_files = <<>>
    /\ sections_found = {}
    /\ todo_sections = {}
    /\ main_all_changes = <<>>
    /\ file_idx = 0
    /\ proceed = ""

BlockIdle == blk_in = <<>> /\ blk_excl = FALSE /\ blk_out = <<>>

InitBlock ==
    /\ rename_extra_ps \in {"None", "True", "False"}
    /\ blk_in \in SeqsUpTo(BlockLines, MaxBlockLen)
    /\ blk_excl \in BOOLEAN
    /\ blk_out = <<>>
    /\ exclude_sections = {}
    /\ PreviewIdle
    /\ MainIdle

\* the first call, on the drawn block
CallBlock ==
    /\ Len(blk_out) = 0
    /\ blk_out' = <<process_block_full(blk_in, HarnessSection, blk_excl, rename_extra_ps)>>
    /\ UNCHANGED <<rename_extra_ps, blk_in, blk_excl, exclude_sections, previewLocals,
                   mainLocals>>

\* the second call, on the block the first call returned
CallBlockAgain ==
    /\ Len(blk_out) = 1
    /\ blk_out' = Append(blk_out, process_block_full(blk_out[1].block, HarnessSection,
                                                     blk_excl, rename_extra_ps))
    /\ UNCHANGED <<rename_extra_ps, blk_in, blk_excl, exclude_sections, previewLocals,
                   mainLocals>>

vars == <<rename_extra_ps, exclude_sections, previewLocals, mainLocals, blockHarness>>

NextBlock == CallBlock \/ CallBlockAgain
SpecBlock == InitBlock /\ [][NextBlock]_vars

(***************************************************************************)
(* Harness for process_ini_preview alone: a file drawn from a catalogue of *)
(* lines, with [CommandListFoo] in the exclusion set or not.               *)
(***************************************************************************)
MaxFileLen == 4

HeaderBody == <<"[TextureOverride", "Body", "]", "\n">>
HeaderBodyIB == <<"[TextureOverride", "Body", "IB", "]", "\n">>
HeaderFoo == <<"[CommandList", "Foo", "]", "\n">>
IfSwapvar0 == <<"if", " ", "$swapvar", " ", "==", " ", "0", "\n">>
CommentLine == <<";", " ", "Resource", "\n">>

FileLines ==
    {HeaderBody, HeaderBodyIB, HeaderFoo, IfSwapvar0, EndifLine,
     Ps0ExtraDiffuse, Ps1NormalMap, RunNNFix}

\* Longer files, drawn besides the catalogue ones: a section with one
\* swap-conditional arm whose directive stands between its two slot
\* assignments, and sections followed by a [Resource...] section.
ResourceNormalMapHeader == <<"[Resource", "NormalMap", "]", "\n">>
ResourcePositionHeader == <<"[Resource", "Body", "Position", "]", "\n">>
FilenameLine == <<"filename", " ", "=", " ", "Body", "NormalMap", ".dds", "\n">>
FileArmWithStrayRun ==
    <<HeaderBody, IfSwapvar0, Ps0ExtraDiffuse, RunNNFix, Ps1NormalMap, EndifLine>>
FileWithResource == <<HeaderBody, Ps0Diffuse, ResourceNormalMapHeader, FilenameLine>>
FileWithResourcePosition ==
    <<HeaderBody, RunNNFix, Ps0Diffuse, ResourcePositionHeader, FilenameLine>>
ExampleFiles == {FileArmWithStrayRun, FileWithResource, FileWithResourcePosition}

InitPreview ==
    /\ rename_extra_ps \in {"True", "False"}
    /\ exclude_sections \in {{}, {strip(HeaderFoo)}}
    /\ lines \in SeqsUpTo(FileLines, MaxFileLen) \cup ExampleFiles
    /\ pos = 0
    /\ new_lines = <<>>
    /\ block_lines = <<>>
    /\ current_section = None
    /\ inside_section = FALSE
    /\ inside_excluded = FALSE
    /\ current_swapvar = None
    /\ all_changes = <<>>
    /\ ppc = "loop"
    /\ MainIdle
    /\ BlockIdle

NextPreview ==
    \/ ReadHeader
    \/ ReadSwapvar
    \/ ReadEndif
    \/ ReadBody
    \/ ReadOutside
    \/ EndOfInput
SpecPreview == InitPreview /\ [][NextPreview]_vars

(***************************************************************************)
(* The program: main, over a directory whose files are drawn from a few    *)
(* whole-file contents.                                                    *)
(***************************************************************************)
FileNeedsRun == <<HeaderBody, Ps1NormalMap>>
FileInOrder == <<HeaderBody, Ps0ExtraDiffuse, RunNNFix>>
FileExcludedOnly == <<HeaderBodyIB, Ps0ExtraDiffuse, RunORFix>>
FileSwapArm == <<CommentLine, HeaderFoo, IfSwapvar0, IndentedPs0, EndifLine>>

FileContents == {FileNeedsRun, FileInOrder, FileExcludedOnly, FileSwapArm}

Init ==
    /\ rename_extra_ps = "None"
    /\ exclude_sections = {}
    /\ PreviewIdle
    /\ mpc = "ask_rename"
    /\ recursive = FALSE
    /\ fs \in {tree \in [Paths -> FileContents] : tree[PathNotes] = FileNeedsRun}
    /\ io_log = <<>>
    /\ ini_files = <<>>
    /\ sections_found = {}
    /\ todo_sections = {}
    /\ main_all_changes = <<>>
    /\ file_idx = 0
    /\ proceed = ""
    /\ BlockIdle

Next ==
    \/ AnswerRename
    \/ AnswerRecursive
    \/ AutoExclude
    \/ AnswerExclude
    \/ ExclusionDone
    \/ StartPreview
    \/ ReadHeader
    \/ ReadSwapvar
    \/ ReadEndif
    \/ ReadBody
    \/ ReadOutside
    \/ EndOfInput
    \/ ReturnPreview
    \/ PreviewDone
    \/ AnswerProceed
    \/ StartApply
    \/ BackupFile
    \/ WriteFile
    \/ ApplyDone
Spec == Init /\ [][Next]_vars

(***************************************************************************)
(* Vocabulary of the properties                                            *)
(***************************************************************************)
RunPositions(b) == {i \in DOMAIN b : RUN_LINE_PATTERN(b[i])}
SlotPositions(b) == {i \in DOMAIN b : MatchPsT(lstrip(b[i]))}
SlotDepths(b) == {Indent(b[i]) : i \in SlotPositions(b)}
LastSlotAt(b, d) == SetMax({i \in SlotPositions(b) : Indent(b[i]) = d})
NonRun(b) == SelectSeq(b, LAMBDA l : ~RUN_LINE_PATTERN(l))
CountKind(changes, kind) == Cardinality({i \in DOMAIN changes : changes[i].kind = kind})
\* ORFix iff some line of the block contains "NormalMap"
Canonical(b) ==
    IF \E i \in DOMAIN b : \E j \in DOMAIN b[i] : b[i][j] = "NormalMap"
    THEN RunORFix ELSE RunNNFix
\* after leading whitespace, a ps-t0 assignment with both "Extra" and "Diffuse"
Qualifies(line) ==
    /\ MatchPsT0Assign(lstrip(line))
    /\ Contains(line, "Extra")
    /\ Contains(line, "Diffuse")
\* the line with the slot digit of its leading ps-t0 turned into 1
SlotRenamed(line) == [line EXCEPT ![Indent(line) + 2] = "1"]
\* what the harness call has to return for an input line that is no directive
ExpectedLine(line) ==
    IF rename_extra_ps = "True" /\ ~blk_excl /\ Qualifies(line)
    THEN SlotRenamed(line) ELSE line
Called == Len(blk_out) >= 1
FirstOut == blk_out[1]

\* C1: process_block_full is idempotent: a second pass over the block the
\* first pass returned returns that block and an empty change list.
C1_Idempotent ==
    Len(blk_out) = 2 => blk_out[2] = [block |-> blk_out[1].block, changes |-> <<>>]

\* C2: in the block returned for a non-excluded, non-empty block, at every
\* depth with a slot assignment the line right after the last slot assignment
\* of that depth is the canonical directive, and no other directive line of
\* that depth exists.
C2_DirectiveCorrect ==
    (Called /\ ~blk_excl /\ blk_in # <<>>) =>
        LET b == FirstOut.block
        IN \A d \in SlotDepths(b) :
              LET p == LastSlotAt(b, d)
              IN /\ p + 1 \in DOMAIN b
                 /\ b[p + 1] = Canonical(blk_in)
                 /\ \A i \in RunPositions(b) : Indent(b[i]) = d => i = p + 1

\* C4: the lines that are no directive come back in order, each one
\* character-identical unless the rename option is on, the block is not
\* excluded and the line is a ps-t0 assignment with "Extra" and "Diffuse";
\* then only its leading ps-t0 becomes ps-t1, with one Renamed record each.
C4_RenameScope ==
    Called =>
        /\ NonRun(FirstOut.block)
             = [i \in DOMAIN NonRun(blk_in) |-> ExpectedLine(NonRun(blk_in)[i])]
        /\ CountKind(FirstOut.changes, "RENAMED")
             = Cardinality({i \in DOMAIN blk_in : ExpectedLine(blk_in[i]) # blk_in[i]})

\* C4 witness: rename on, a block with a line that is renamed (and keeps its
\* second ps-t0) and a ps-t0 line with "Diffuse" only that is not.
C4_Witness ==
    /\ Called /\ rename_extra_ps = "True" /\ ~blk_excl
    /\ \E i \in DOMAIN blk_in : blk_in[i] = IndentedPs0
    /\ \E i \in DOMAIN blk_in : blk_in[i] = Ps0Diffuse
    /\ \E i \in DOMAIN FirstOut.block : FirstOut.block[i] = SlotRenamed(IndentedPs0)
    /\ CountKind(FirstOut.changes, "RENAMED") = 1

\* the blocks C7 is about: not excluded, no directive line, slots at one depth
C7_Case ==
    /\ Called /\ ~blk_excl
    /\ RunPositions(blk_in) = {}
    /\ Cardinality(SlotDepths(blk_in)) = 1

\* C7: for a non-excluded block with no directive line and slot assignments
\* at one depth, the result is the input (renames applied) with one canonical
\* directive right after the last slot assignment; one AddedDirective, one
\* Renamed per renamed line, nothing else.
C7_InsertIntoFree ==
    C7_Case =>
        LET r == [i \in DOMAIN blk_in |-> ExpectedLine(blk_in[i])]
            p == SetMax(SlotPositions(blk_in))
            n == Cardinality({i \in DOMAIN blk_in : r[i] # blk_in[i]})
        IN /\ FirstOut.block
                = SubSeq(r, 1, p) \o <<Canonical(blk_in)>> \o SubSeq(r, p + 1, Len(r))
           /\ CountKind(FirstOut.changes, "ADDED") = 1
           /\ CountKind(FirstOut.changes, "RENAMED") = n
           /\ Len(FirstOut.changes) = n + 1

\* C7 witness: such a block whose last slot assignment is a renamed line and
\* is followed by another line, so the directive goes into the middle.
C7_Witness ==
    /\ C7_Case /\ rename_extra_ps = "True"
    /\ SetMax(SlotPositions(blk_in)) < Len(blk_in)
    /\ blk_in[SetMax(SlotPositions(blk_in))] = Ps0ExtraDiffuse
    /\ Len(FirstOut.block) = Len(blk_in) + 1

\* the blocks C8 is about: not excluded, slots at one depth, one directive
\* line, at that depth and before the last slot assignment
C8_Case ==
    /\ Called /\ ~blk_excl
    /\ Cardinality(SlotDepths(blk_in)) = 1
    /\ Cardinality(RunPositions(blk_in)) = 1
    /\ \A i \in RunPositions(blk_in) :
          /\ Indent(blk_in[i]) \in SlotDepths(blk_in)
          /\ i < LastSlotAt(blk_in, Indent(blk_in[i]))

\* C8: a directive line standing before the last slot assignment of its depth
\* is removed and the canonical directive is the line right after the last
\* slot assignment of the returned block; one RemovedDirective, one
\* AddedDirective.
C8_RemoveThenInsert ==
    C8_Case =>
        LET b == FirstOut.block
            p == SetMax(SlotPositions(b))
        IN /\ p + 1 \in DOMAIN b
           /\ b[p + 1] = Canonical(blk_in)
           /\ RunPositions(b) = {p + 1}
           /\ CountKind(FirstOut.changes, "REMOVED") = 1
           /\ CountKind(FirstOut.changes, "ADDED") = 1

\* the blocks C9 is about: not excluded, no directive line, slots at two or
\* more depths
C9_Case ==
    /\ Called /\ ~blk_excl
    /\ RunPositions(blk_in) = {}
    /\ Cardinality(SlotDepths(blk_in)) >= 2

\* C9: in a directive-free block with slot assignments at several depths,
\* every depth's last slot assignment is directly followed by a directive,
\* and there is one directive per depth.
C9_ShiftedInsertions ==
    C9_Case =>
        LET b == FirstOut.block
        IN /\ Cardinality(RunPositions(b)) = Cardinality(SlotDepths(b))
           /\ \A d \in SlotDepths(b) :
                 /\ LastSlotAt(b, d) + 1 \in DOMAIN b
                 /\ b[LastSlotAt(b, d) + 1] = Canonical(blk_in)

\* C10: every directive line of the block returned for a non-excluded block
\* is the canonical directive of the input block (ORFix iff a line of it
\* contains "NormalMap"), and every input directive line that is not kept has
\* its RemovedDirective record.
C10_SingleTarget ==
    (Called /\ ~blk_excl) =>
        /\ \A i \in RunPositions(FirstOut.block) : FirstOut.block[i] = Canonical(blk_in)
        /\ CountKind(FirstOut.changes, "REMOVED")
             = Cardinality(RunPositions(blk_in))
               - (Cardinality(RunPositions(FirstOut.block))
                  - CountKind(FirstOut.changes, "ADDED"))

\* C10 witness: a block with NormalMap whose NNFix line stands right after
\* the last slot assignment: it is removed and ORFix is put there.
C10_Witness ==
    /\ Called /\ ~blk_excl
    /\ \E i \in DOMAIN blk_in :
          /\ i = SetMax(SlotPositions(blk_in) \cup {0})
          /\ blk_in[i] = Ps1NormalMap
          /\ i + 1 \in DOMAIN blk_in
          /\ blk_in[i + 1] = RunNNFix
    /\ CountKind(FirstOut.changes, "REMOVED") >= 1
    /\ \E i \in DOMAIN FirstOut.block : FirstOut.block[i] = RunORFix

HeaderPositions == {h \in DOMAIN lines : IsSectionHeader(strip(lines[h]))}
\* the position of the next section header after h, or one past the end
NextHeader(h) ==
    IF \E n \in HeaderPositions : n > h
    THEN SetMin({n \in HeaderPositions : n > h}) ELSE Len(lines) + 1
\* a section name an auto-exclude suffix pattern matches, or of the given set
ExcludedName(section) ==
    \/ \E suffix \in {"ib", "position", "texcoord", "blend", "info", "vertexlimitraise"} :
          PatMatch(suffix, section)
    \/ section \in exclude_sections
Returned == ppc = "ret"

\* C3: the lines from the header of an excluded section up to the next
\* section header are in the output as they are in the input, one after the
\* other, behind as many non-directive lines as precede them in the input;
\* and no change record names an excluded section.
C3_ExclusionAbsolute ==
    Returned =>
        /\ \A h \in HeaderPositions :
              ExcludedName(strip(lines[h])) =>
                  \E o \in 0..(Len(new_lines) - (NextHeader(h) - h)) :
                      /\ SubSeq(new_lines, o + 1, o + NextHeader(h) - h)
                           = SubSeq(lines, h, NextHeader(h) - 1)
                      /\ Len(NonRun(SubSeq(new_lines, 1, o)))
                           = Len(NonRun(SubSeq(lines, 1, h - 1)))
        /\ \A i \in DOMAIN all_changes : ~ExcludedName(all_changes[i].section)

\* C3 witness: rename on, and an excluded section holding a swap-conditional
\* arm with a line the rename would rewrite and a directive line that would
\* be removed.
C3_Witness ==
    /\ Returned /\ rename_extra_ps = "True"
    /\ \E h \in HeaderPositions :
          /\ ExcludedName(strip(lines[h]))
          /\ \E i, j, k \in (h + 1)..(NextHeader(h) - 1) :
                /\ SWAPVAR_PATTERN(lines[i])
                /\ j > i /\ Qualifies(lines[j])
                /\ k > i /\ RUN_LINE_PATTERN(lines[k])

\* the line as the rename leaves it, whether or not it applies
Norm(line) == IF Qualifies(line) THEN SlotRenamed(line) ELSE line
CountNorm(list, x) ==
    Cardinality({i \in DOMAIN list : ~RUN_LINE_PATTERN(list[i]) /\ Norm(list[i]) = x})

\* C5: when process_ini_preview returns, the non-directive lines of the
\* output are the non-directive lines of the input, each as often as there
\* (verbatim or renamed); every output line is an input line, the renamed
\* form of one, or a canonical directive; and the directive lines are those
\* of the input less the removed ones plus the added ones.
C5_LineConservation ==
    Returned =>
        /\ \A x \in {Norm(lines[i]) : i \in DOMAIN lines}
                    \cup {Norm(new_lines[i]) : i \in DOMAIN new_lines} :
              CountNorm(new_lines, x) = CountNorm(lines, x)
        /\ \A i \in DOMAIN new_lines :
              \/ \E j \in DOMAIN lines : new_lines[i] = lines[j]
              \/ \E j \in DOMAIN lines :
                    /\ rename_extra_ps = "True"
                    /\ Qualifies(lines[j])
                    /\ new_lines[i] = SlotRenamed(lines[j])
              \/ new_lines[i] \in {RunORFix, RunNNFix}
        /\ Cardinality(RunPositions(new_lines))
             = Cardinality(RunPositions(lines))
               - CountKind(all_changes, "REMOVED") + CountKind(all_changes, "ADDED")

\* C5 witness: the input ends inside a block, and the flush of that block
\* removed one directive line and added another.
C5_Witness ==
    /\ Returned
    /\ block_lines # <<>>
    /\ \E i \in DOMAIN block_lines : RUN_LINE_PATTERN(block_lines[i])
    /\ CountKind(all_changes, "REMOVED") >= 1
    /\ CountKind(all_changes, "ADDED") >= 1
    /\ Len(new_lines) = Len(lines)

\* C6: every write of a file comes after the answer y to the proceed prompt,
\* is of a file whose preview had change records, and directly follows the
\* backup copy of that file's content; with any other answer, or with no
\* change records at all, nothing is copied and nothing is written.
C6_WriteProtocol ==
    /\ \A i \in DOMAIN io_log :
          io_log[i].op = "write" =>
              /\ proceed = "y"
              /\ \E k \in DOMAIN main_all_changes :
                    /\ main_all_changes[k].fpath = io_log[i].fpath
                    /\ main_all_changes[k].changes # <<>>
              /\ i - 1 \in DOMAIN io_log
              /\ io_log[i - 1].op = "copyfile"
              /\ io_log[i - 1].fpath = io_log[i].fpath
    /\ \A i \in DOMAIN io_log :
          io_log[i].op = "copyfile" /\ mpc \notin {"write"} =>
              /\ i + 1 \in DOMAIN io_log
              /\ io_log[i + 1].op = "write"
    /\ (proceed # "y" \/ main_all_changes = <<>>) => io_log = <<>>

\* C6 witness: main is done, two files were previewed, one had change records
\* and was backed up and written, the other was left alone.
C6_Witness ==
    /\ mpc = "done"
    /\ Len(ini_files) = 2
    /\ Len(main_all_changes) = 1
    /\ Len(io_log) = 2
    /\ io_log[2].op = "write"
    /\ fs[io_log[2].fpath] = io_log[2].content
    /\ fs[io_log[2].fpath] # io_log[1].content

\* the non-directive lines of a list, each as the rename leaves it
NormNonRun(list) == [i \in DOMAIN NonRun(list) |-> Norm(NonRun(list)[i])]

\* C11: when process_ini_preview returns, the output without its directive
\* lines lists the lines of the input without its directive lines, in the
\* same order (a renamed line counting as the line it was).
C11_OrderPreserved ==
    Returned => NormNonRun(new_lines) = NormNonRun(lines)

\* the next step of process_ini_preview hands a non-empty block to
\* process_block_full
FlushNext ==
    \/ /\ InLoop
       /\ IsSectionHeader(strip(CurLine)) \/ SWAPVAR_PATTERN(CurLine)
       /\ block_lines # <<>>
    \/ /\ InLoop
       /\ ~IsSectionHeader(strip(CurLine)) /\ ~SWAPVAR_PATTERN(CurLine)
       /\ inside_section /\ EndifMatch(CurLine)
    \/ /\ ppc = "loop" /\ pos = Len(lines)
       /\ block_lines # <<>>
\* no section header among the lines read so far
NoHeaderYet == \A k \in 1..pos : ~IsSectionHeader(strip(lines[k]))

\* C12: no non-empty block is handed to process_block_full while no section
\* header has been seen (the current section is absent).
C12_NoFlushWithoutSection ==
    FlushNext => (~NoHeaderYet /\ current_section # None)

\* the block the next step hands to process_block_full: at an endif the line
\* is appended first (lines 130-131), at a header, a swap-open line or the
\* end of the input the block is handed over as it stands
HandedBlock ==
    IF /\ InLoop
       /\ ~IsSectionHeader(strip(CurLine)) /\ ~SWAPVAR_PATTERN(CurLine)
       /\ inside_section /\ EndifMatch(CurLine)
    THEN Append(block_lines, CurLine)
    ELSE block_lines
\* what the flush extends new_lines with
FlushedBlock ==
    process_block_full(HandedBlock, current_section, inside_excluded,
                       rename_extra_ps).block

\* C13: every block handed to process_block_full has no section header, a
\* swap-open line only as its first line and an endif only as its last line;
\* and the directives of a flushed swap arm stand before the arm's endif.
C13_BlockBoundary ==
    FlushNext =>
        /\ \A k \in DOMAIN HandedBlock :
             /\ ~IsSectionHeader(strip(HandedBlock[k]))
             /\ SWAPVAR_PATTERN(HandedBlock[k]) => k = 1
             /\ EndifMatch(HandedBlock[k]) => k = Len(HandedBlock)
        /\ SWAPVAR_PATTERN(HandedBlock[1]) =>
             \A k, j \in DOMAIN FlushedBlock :
                 (RUN_LINE_PATTERN(FlushedBlock[k]) /\ EndifMatch(FlushedBlock[j]))
                     => k < j

\* the part of C13 about the blocks handed over, without the placement of
\* the directives
BlockShape ==
    FlushNext =>
        \A k \in DOMAIN HandedBlock :
             /\ ~IsSectionHeader(strip(HandedBlock[k]))
             /\ SWAPVAR_PATTERN(HandedBlock[k]) => k = 1
             /\ EndifMatch(HandedBlock[k]) => k = Len(HandedBlock)

\* the loop is at an endif line and no section header has been read
StrayEndifNext == InLoop /\ EndifMatch(CurLine) /\ NoHeaderYet

\* C14: an endif read while no section header has been seen is appended to
\* the output as it is; the pending block is not flushed, no change record is
\* added and the loop goes on to the next line.
C14_StrayEndif ==
    [][StrayEndifNext =>
          /\ new_lines' = Append(new_lines, CurLine)
          /\ block_lines' = block_lines
          /\ all_changes' = all_changes
          /\ current_section' = current_section
          /\ ppc' = "loop" /\ pos' = pos + 1]_vars
\* a stray endif has just been read while a swap-open line was pending
C14_Witness ==
    /\ ppc = "loop" /\ pos >= 2
    /\ EndifMatch(lines[pos]) /\ NoHeaderYet
    /\ block_lines # <<>> /\ SWAPVAR_PATTERN(block_lines[1])
    /\ new_lines # <<>> /\ new_lines[Len(new_lines)] = lines[pos]
    /\ all_changes = <<>>

\* the change records the next flush returns
FlushedChanges ==
    process_block_full(HandedBlock, current_section, inside_excluded,
                       rename_extra_ps).changes
\* the part of C15 about one block
BlockAccounting ==
    FlushNext =>
        /\ Len(FlushedBlock) = Len(HandedBlock)
                                 - CountKind(FlushedChanges, "REMOVED")
                                 + CountKind(FlushedChanges, "ADDED")
        /\ FlushedChanges = <<>> => FlushedBlock = HandedBlock

\* C15: the change records of a flush account for its edits (the block
\* shrinks by the REMOVED records and grows by the ADDED ones, and with no
\* record it is returned as it was), and a file for which process_ini_preview
\* returns no change record has its output equal to its input.
C15_ChangesAccount ==
    /\ BlockAccounting
    /\ (Returned /\ all_changes = <<>>) => new_lines = lines

\* a header of another kind of section: a line that starts with "[" and is
\* neither a [CommandList nor a [TextureOverride header
OtherSectionHeader(line) ==
    /\ ~IsSectionHeader(strip(line))
    /\ Lower(At(strip(line), 1)) \in {"[resource"}
OtherHeaderPositions == {h \in DOMAIN lines : OtherSectionHeader(lines[h])}
FirstOther == SetMin(OtherHeaderPositions)
\* the header of the section the first other header ends
OwnHeader == SetMax({s \in 1..FirstOther : IsSectionHeader(strip(lines[s]))})
\* the lines of that section, and the lines from the other header on
OwnLines == SubSeq(lines, OwnHeader + 1, FirstOther - 1)
TailLines == SubSeq(lines, FirstOther, Len(lines))
\* the file has one non-excluded section without swap arms, followed by
\* another kind of section up to the end of the file
C16_Case ==
    /\ Returned
    /\ OtherHeaderPositions # {}
    /\ \E s \in 1..FirstOther : IsSectionHeader(strip(lines[s]))
    /\ \A k \in DOMAIN lines :
          /\ IsSectionHeader(strip(lines[k])) => k = OwnHeader
          /\ ~SWAPVAR_PATTERN(lines[k])
    /\ ~ExcludedName(strip(lines[OwnHeader]))

\* C16: the lines from a [Resource...] header on are emitted as they are,
\* with no directive among or after them, and the directives of the section
\* before it are chosen by that section's own lines.
C16_OneSectionBlocks ==
    C16_Case =>
        /\ Len(new_lines) >= Len(TailLines)
        /\ SubSeq(new_lines, Len(new_lines) - Len(TailLines) + 1, Len(new_lines))
              = TailLines
        /\ \A k \in DOMAIN new_lines :
              (k > OwnHeader /\ RUN_LINE_PATTERN(new_lines[k]))
                  => new_lines[k] = Canonical(OwnLines)

====
